---------------------------- MODULE Spec2Model ----------------------------
(***************************************************************************)
(* Gesture-driven particle tree: the gesture classifier, the edge-         *)
(* triggered dispatcher of useGestureRecognition, the GestureTree          *)
(* callbacks, and the ThreeScene state they drive (pinch state, theme,     *)
(* snow, firework bursts, animation tick).                                 *)
(*                                                                         *)
(* Units.  Landmark coordinates and gesture thresholds are in thousandths  *)
(* (0.12 is 120).  Pinch strength is in hundredths (0.75 is 75).  Forces   *)
(* are in 1/10000 (0.35 * 0.75 is 2625).  Burst age and lifetime and timer *)
(* delays are in milliseconds (0.016 is 16, 3.0 is 3000).                  *)
(***************************************************************************)
EXTENDS Integers, Sequences, FiniteSets, TLC

VARIABLES
  \* useGestureRecognition (src/unnamed/part_001)
  isMounted, wasOneFinger, wasTwoFingers, wasThreeFingers,
  \* GestureTree refs (src/components/GestureTree.tsx 20-28)
  isPinchingRef, colorThemeRef, isSnowingRef, threeSceneRef,
  \* ThreeScene fields (src/ThreeScene.ts 102-114)
  time, isPinching, pinchStrength, rotationTarget, colorTheme, isSnowing,
  fireworks, animationFrameId,
  \* the THREE.Scene graph: burst render objects added / disposed
  sceneObjs, disposedObjs,
  \* pending setTimeout callbacks and the arrays their closures hold
  timers, fwArrays, nTriggers,
  \* the environment: whether the three module exports Float32Array
  \* ("unknown" until a spawn callback first evaluates it)
  threeFloat32Array,
  \* observations of the last perception frame and the last tick
  frameNo, lastFrame, calls, lastPinchCall, lastTick,
  \* the classifier applied to one input
  clsInput, clsResult,
  \* the particles whose position and velocity buffers are followed
  pts,
  \* calls of ThreeScene.dispose so far (2: two or more)
  disposeCalls,
  \* useGestureRecognition.initCamera: its position, the poll counter,
  \* whether the hand-tracking scripts have loaded, what it has reported
  initPc, attempts, libLoaded, cameraStatus, errorReports,
  \* handsInstanceRef / cameraInstanceRef hold an instance
  handsInstance, cameraInstance,
  errorMessage, statusLog,
  genCalls

hookVars  == <<isMounted, wasOneFinger, wasTwoFingers, wasThreeFingers>>
compVars  == <<isPinchingRef, colorThemeRef, isSnowingRef, threeSceneRef>>
pinchVars == <<isPinching, pinchStrength, rotationTarget>>
sceneVars == <<time, pinchVars, colorTheme, isSnowing, fireworks,
               animationFrameId, sceneObjs, disposedObjs>>
timerVars == <<timers, fwArrays, nTriggers>>
obsVars   == <<frameNo, lastFrame, calls, lastPinchCall, lastTick>>
clsVars   == <<clsInput, clsResult>>
pollVars  == <<initPc, attempts, libLoaded, cameraStatus, errorReports>>
instVars  == <<handsInstance, cameraInstance>>
logVars   == <<errorMessage, statusLog>>
genVars   == <<genCalls>>
vars == <<hookVars, compVars, sceneVars, timerVars, threeFloat32Array,
          obsVars, clsVars, pts, disposeCalls, pollVars, instVars, logVars,
          genVars>>

NULL == [isNull |-> TRUE]

----------------------------------------------------------------------------
(* Constants of src/unnamed/part_000                                       *)

INDEX_CURLED    == 120
MIDDLE_CURLED   == 120
RING_CURLED     == 120
PINKY_CURLED    == 120
THUMB_CURLED    == 180
INDEX_EXTENDED  == 150
MIDDLE_EXTENDED == 150
RING_EXTENDED   == 150
PINKY_EXTENDED  == 150

GRAVITY_STRENGTH   == 35
EXPLOSION_STRENGTH == 2500
FW_LIFETIME        == 3000
FW_AGE_STEP        == 16

----------------------------------------------------------------------------
(* Gesture classifier (utils.calculateFingerStates)                        *)

Abs(v) == IF v < 0 THEN 0 - v ELSE v

\* [a, b, c, d].filter(x => x).length
CountTrue(flags) == Cardinality({i \in DOMAIN flags : flags[i]})

\* landmarks[i] of a JavaScript array held as [pts |-> <<p0, p1, ...>>]
At(landmarks, i) == landmarks.pts[i + 1]

curledFlag(tip, palmBase, threshold) == Abs(tip.y - palmBase.y) < threshold

extendedFlag(tip, palmBase, threshold) == Abs(tip.y - palmBase.y) > threshold

isFistOf(fingersCurled, thumbCurled) == fingersCurled >= 3 /\ thumbCurled

isOneFingerOf(ie, me, re, pe) == ie /\ ~me /\ ~re /\ ~pe

\* variant of the two-finger test that does not look at the ring finger
isTwoFingersLoose(ie, me, re, pe) == ie /\ me /\ ~pe

isTwoFingersOf(ie, me, re, pe) == ie /\ me /\ ~re /\ ~pe

isThreeFingersOf(ie, me, re, pe) == ie /\ me /\ re /\ ~pe

\* variant of the length test that asks for 22 landmarks
FewerThan22(n) == n < 22

\* landmarks.length < 21
TooFew(n) == n < 21

\* if (!landmarks || landmarks.length < 21) return null
Rejects(landmarks) == landmarks = NULL \/ TooFew(Len(landmarks.pts))

\* The indices of the landmark array the classifier reads: none before
\* the early return, then wrist, thumb tip, the four finger tips and the
\* palm base.
landmarksRead(landmarks) ==
  IF Rejects(landmarks) THEN {} ELSE {0, 4, 8, 12, 16, 20, 9}

calculateFingerStates(landmarks) ==
  IF Rejects(landmarks) THEN NULL
  ELSE
    LET wrist     == At(landmarks, 0)
        thumbTip  == At(landmarks, 4)
        indexTip  == At(landmarks, 8)
        middleTip == At(landmarks, 12)
        ringTip   == At(landmarks, 16)
        pinkyTip  == At(landmarks, 20)
        palmBase  == At(landmarks, 9)
        indexCurled  == curledFlag(indexTip, palmBase, INDEX_CURLED)
        middleCurled == curledFlag(middleTip, palmBase, MIDDLE_CURLED)
        ringCurled   == curledFlag(ringTip, palmBase, RING_CURLED)
        pinkyCurled  == curledFlag(pinkyTip, palmBase, PINKY_CURLED)
        thumbCurled  == curledFlag(thumbTip, palmBase, THUMB_CURLED)
        indexExtended  == extendedFlag(indexTip, palmBase, INDEX_EXTENDED)
        middleExtended == extendedFlag(middleTip, palmBase, MIDDLE_EXTENDED)
        ringExtended   == extendedFlag(ringTip, palmBase, RING_EXTENDED)
        pinkyExtended  == extendedFlag(pinkyTip, palmBase, PINKY_EXTENDED)
        fingersCurled ==
          CountTrue(<<indexCurled, middleCurled, ringCurled, pinkyCurled>>)
        fingersExtended ==
          CountTrue(<<indexExtended, middleExtended, ringExtended,
                      pinkyExtended>>)
    IN [ wrist |-> wrist, thumbTip |-> thumbTip, indexTip |-> indexTip,
         middleTip |-> middleTip, ringTip |-> ringTip, pinkyTip |-> pinkyTip,
         palmBase |-> palmBase,
         fingersCurled |-> fingersCurled,
         fingersExtended |-> fingersExtended,
         isFist |-> isFistOf(fingersCurled, thumbCurled),
         isOneFinger |->
           isOneFingerOf(indexExtended, middleExtended, ringExtended,
                         pinkyExtended),
         isTwoFingers |->
           isTwoFingersOf(indexExtended, middleExtended, ringExtended,
                          pinkyExtended),
         isThreeFingers |->
           isThreeFingersOf(indexExtended, middleExtended, ringExtended,
                            pinkyExtended) ]

----------------------------------------------------------------------------
(* Landmark inputs.  A hand is an array of points; only the points the     *)
(* classifier reads vary, the others sit at the image centre.              *)

Point(px, py) == [x |-> px, y |-> py]

\* A landmark array of n points: palm base at (palmX, palmY), wrist below
\* it, each fingertip at the given vertical offset from the palm base.
Hand(n, palmX, palmY, thumbOff, indexOff, middleOff, ringOff, pinkyOff) ==
  [pts |->
    [k \in 1..n |->
      CASE k = 1  -> Point(palmX, palmY + 250)
        [] k = 5  -> Point(palmX - 100, palmY + thumbOff)
        [] k = 9  -> Point(palmX - 40, palmY + indexOff)
        [] k = 10 -> Point(palmX, palmY)
        [] k = 13 -> Point(palmX, palmY + middleOff)
        [] k = 17 -> Point(palmX + 40, palmY + ringOff)
        [] k = 21 -> Point(palmX + 80, palmY + pinkyOff)
        [] OTHER  -> Point(500, 500)]]

\* Vertical tip offsets: on both sides of the palm base, and on and around
\* the 0.12 and 0.15 thresholds.
TipOffsets == {-160, 100, 120, 150, 160}

ThumbOffsets == {100, 180, -200}

PalmYs == {400, 600}

ArrayLengths == {21, 22}

ShortLengths == {0, 20}

ClassifierInputs ==
  { Hand(n, 250, py, t, i, m, r, p) :
      n \in ArrayLengths, py \in PalmYs, t \in ThumbOffsets,
      i \in TipOffsets, m \in TipOffsets, r \in TipOffsets,
      p \in TipOffsets }
  \cup { Hand(n, 250, 600, 100, -160, 100, 100, 100) : n \in ShortLengths }
  \cup { NULL }


----------------------------------------------------------------------------
(* Perception frames delivered to the onResults callback                   *)

\* results.multiHandLandmarks: missing, or an array of landmark arrays
Results(hands) == [multiHandLandmarks |-> [arr |-> hands]]

NoHandsField == [multiHandLandmarks |-> NULL]

FrameTipOffsets == {100, -160}

\* the palm base (landmark 9) of every frame's hand
FramePalm == Point(250, 600)

FrameThumbOffsets == {100, 200}

ResultsInputs ==
  { Results(<<Hand(21, FramePalm.x, FramePalm.y, t, i, m, r, p)>>) :
      t \in FrameThumbOffsets, i \in FrameTipOffsets, m \in FrameTipOffsets,
      r \in FrameTipOffsets, p \in FrameTipOffsets }
  \cup { Results(<<Hand(20, FramePalm.x, FramePalm.y, 100, 100, 100, 100,
                          100)>>),
         Results(<< >>), NoHandsField }

\* What onResults reads from a frame: whether a hand is present, and the
\* fields it destructures from the classifier's result.
Observe(results) ==
  IF results.multiHandLandmarks # NULL
     /\ Len(results.multiHandLandmarks.arr) > 0
  THEN LET landmarks   == results.multiHandLandmarks.arr[1]
           fingerState == calculateFingerStates(landmarks)
       IN IF fingerState = NULL
          THEN [kind |-> "short"]
          ELSE [kind |-> "hand",
                palmBase       |-> fingerState.palmBase,
                fingersCurled  |-> fingerState.fingersCurled,
                isFist         |-> fingerState.isFist,
                isOneFinger    |-> fingerState.isOneFinger,
                isTwoFingers   |-> fingerState.isTwoFingers,
                isThreeFingers |-> fingerState.isThreeFingers]
  ELSE [kind |-> "nohand"]

\* The distinct observations of the frames above (evaluated once).
FrameEvents == { Observe(r) : r \in ResultsInputs }

IsHand(ev) == ev.kind = "hand"

----------------------------------------------------------------------------
(* Bounds                                                                  *)

\* three-finger triggers (createFireworks calls) in one run
MaxTriggers == 1

\* particles of the main system (PARTICLE_CONFIG.COUNT in the program)
NParticles == 2

\* bursts seeded into the live set when updateFireworks is checked alone
MaxLive == 2

Particles == 1..NParticles

----------------------------------------------------------------------------
(* Firework bursts (utils.createFireworkParticles)                         *)

\* layers[layerIndex]: count, speed (1/10000 per tick), delay (ms)
Layers ==
  <<[count |-> 200, speed |-> 8000, delay |-> 0],
    [count |-> 150, speed |-> 5000, delay |-> 100],
    [count |-> 100, speed |-> 3000, delay |-> 200]>>

FW_GRAVITY == 150

\* The burst object pushed by a spawn timer.  y, vy: height and vertical
\* velocity (1/10000) of one representative particle, launched straight up
\* at the layer's nominal speed; color: one colour channel (1/10000);
\* opacity: the material's opacity in units of 1/(3 * lifetime).
NewBurst(trigger, layerIndex, origin) ==
  [ id         |-> <<trigger, layerIndex>>,
    layerIndex |-> layerIndex,
    count      |-> Layers[layerIndex + 1].count,
    origin     |-> origin,
    y          |-> origin.y,
    vy         |-> Layers[layerIndex + 1].speed,
    color      |-> 4000,
    opacity    |-> 3 * FW_LIFETIME,
    age        |-> 0,
    lifetime   |-> FW_LIFETIME,
    active     |-> TRUE ]

\* The array createFireworkParticles has filled when it returns: the spawn
\* timers have not run yet.
createFireworkParticlesReturn == << >>

\* The setTimeout records createFireworkParticles schedules.
SpawnTimers(trigger, origin) ==
  [ l \in 1..3 |->
      [kind |-> "fw", rem |-> Layers[l].delay, trigger |-> trigger,
       layerIndex |-> l - 1, origin |-> origin] ]

----------------------------------------------------------------------------
(* ThreeScene.updateFireworks                                              *)

\* variant of the fade that is linear over the whole lifetime
OpacityLinear(age, lifetime) == 3 * (lifetime - age)

\* ageFactor < 0.7 ? 1.0 : 1 - (ageFactor - 0.7) / 0.3, with
\* ageFactor = age / lifetime, in units of 1/(3 * lifetime)
Opacity(age, lifetime) ==
  IF 10 * age < 7 * lifetime THEN 3 * lifetime ELSE 10 * (lifetime - age)

\* One colour channel after the blend toward white of the second half of
\* the lifetime: whiteMix = (ageFactor - 0.5) * 0.6,
\* c * (1 - whiteMix) + whiteMix.
Whiten(c, age, lifetime) ==
  IF 2 * age > lifetime
  THEN (c * (13 * lifetime - 6 * age) + 10000 * (6 * age - 3 * lifetime))
         \div (10 * lifetime)
  ELSE c

Expires(age, lifetime) == age > lifetime

\* The loop body for one burst: age it, then retire it or integrate it.
StepBurst(fw) ==
  IF ~fw.active THEN fw
  ELSE LET age == fw.age + FW_AGE_STEP IN
    IF Expires(age, fw.lifetime)
    THEN [fw EXCEPT !.age = age, !.active = FALSE]
    ELSE [fw EXCEPT !.age = age,
                    !.y = fw.y + fw.vy,
                    !.vy = ((fw.vy - FW_GRAVITY) * 97) \div 100,
                    !.color = Whiten(fw.color, age, fw.lifetime),
                    !.opacity = Opacity(age, fw.lifetime)]

\* variant of the final filter that keeps every burst
FilterNone(list) == list

\* this.fireworks.filter(fw => fw.active)
FilterActive(list) == SelectSeq(list, LAMBDA fw : fw.active)

\* The bursts a tick retires: active before it, inactive after the loop.
Retired(list) ==
  { StepBurst(list[i]) : i \in {j \in 1..Len(list) :
                                  list[j].active /\ ~StepBurst(list[j]).active} }

updateFireworks ==
  /\ fireworks' = FilterActive([i \in 1..Len(fireworks) |->
                                  StepBurst(fireworks[i])])
  /\ sceneObjs' = sceneObjs \ {fw.id : fw \in Retired(fireworks)}
  /\ disposedObjs' = disposedObjs \cup Retired(fireworks)

----------------------------------------------------------------------------
(* ThreeScene.update / animate                                             *)

\* The target branch the particle loop takes and the force it applies to
\* a particle farther than 0.01 from that target.
\* variant of the pinch test that only accepts a full fist
PinchActiveFull(strength) == strength > 75

\* pinchStrength > 0.01, strength in hundredths
PinchActive(strength) == strength > 1

TargetOf(strength) == IF PinchActive(strength) THEN "Tree" ELSE "Exploded"

ForceOf(strength) ==
  IF PinchActive(strength) THEN GRAVITY_STRENGTH * strength
  ELSE EXPLOSION_STRENGTH

\* lastTick: what the ticks since the most recent fist / no-gesture
\* callback selected (NoTick while none has run since).
\* Positions and velocities are <<x, y, z>> in units of 1/10000.
Zero3 == <<0, 0, 0>>

VAdd(a, b) == [c \in 1..3 |-> a[c] + b[c]]

VSub(a, b) == [c \in 1..3 |-> a[c] - b[c]]

\* a / b rounded toward zero
Quot(a, b) == IF a < 0 THEN 0 - ((0 - a) \div b) ELSE a \div b

RECURSIVE SqrtBetween(_, _, _)
SqrtBetween(n, lo, hi) ==
  IF lo >= hi THEN lo
  ELSE LET mid == (lo + hi + 1) \div 2 IN
       IF mid * mid <= n THEN SqrtBetween(n, mid, hi)
       ELSE SqrtBetween(n, lo, mid - 1)

\* Vector3.length()
Length(v) == SqrtBetween(v[1] * v[1] + v[2] * v[2] + v[3] * v[3], 0, 46340)

\* dist > 0.01
EPS_DIST == 100

\* variant of the distance guard that only excludes distance zero
ForceAppliesNonzero(dist) == dist > 0

\* the guard of the attraction: dist > 0.01
ForceApplies(dist) == dist > EPS_DIST

\* ANIMATION_CONFIG.DAMPING, in hundredths
DAMPING == 90

\* variant of the damping that leaves the velocity as it is
DampNone(v) == v

\* variant of the damping that amplifies
DampUp(v) == [c \in 1..3 |-> Quot(v[c] * 110, 100)]

\* velocities[..] *= damping
Damp(v) == [c \in 1..3 |-> Quot(v[c] * DAMPING, 100)]

\* variant of the attraction that grows with the distance (no division)
SpringImpulse(d, dist, force) == [c \in 1..3 |-> Quot(d[c] * force, 10000)]

\* tempVec * (force / dist)
Impulse(d, dist, force) == [c \in 1..3 |-> Quot(d[c] * force, dist)]

\* (Math.random() - 0.5) * brownMotion per component: values of
\* [-0.015, 0.015)
Jitters == {Zero3, <<-150, 0, 149>>, <<149, -150, 75>>}

\* variant of the integration that leaves the position where it was
IntegrateSkip(pos, vel) == pos

\* positions[..] += velocities[..]
Integrate(pos, vel) == VAdd(pos, vel)

\* variant of the loop body that also stores the new position into the
\* Tree target
ParticleStepRetargets(p, strength, jit) ==
  LET v == Damp(VAdd(p.vel, jit)) IN
  [p EXCEPT !.vel = v, !.pos = VAdd(p.pos, v), !.tree = VAdd(p.pos, v)]

\* The particle loop body for one particle p: its position, velocity and
\* the two targets; imp and jit record the attraction and the jitter this
\* tick added to the velocity, dist the distance it measured.
ParticleStep(p, strength, jit) ==
  LET target == IF PinchActive(strength) THEN p.tree ELSE p.exploded
      d      == VSub(target, p.pos)
      dist   == Length(d)
      imp    == IF ForceApplies(dist) THEN Impulse(d, dist, ForceOf(strength))
                ELSE Zero3
      j      == IF PinchActive(strength) THEN Zero3 ELSE jit
      v      == Damp(VAdd(VAdd(p.vel, imp), j))
  IN [p EXCEPT !.vel = v, !.pos = Integrate(p.pos, v), !.imp = imp,
               !.jit = j,
               !.dist = dist]

NoTick == [target |-> [i \in Particles |-> "none"],
           force  |-> [i \in Particles |-> 0]]

Tick ==
  /\ animationFrameId
  /\ time' = (time + 1) % 2
  /\ lastTick' = [target |-> [i \in Particles |-> TargetOf(pinchStrength)],
                  force  |-> [i \in Particles |-> ForceOf(pinchStrength)]]
  /\ \E jit \in [DOMAIN pts -> Jitters] :
       pts' = [i \in DOMAIN pts |->
                 ParticleStep(pts[i], pinchStrength, jit[i])]
  /\ updateFireworks
  /\ UNCHANGED <<hookVars, compVars, pinchVars, colorTheme, isSnowing,
                 animationFrameId, timerVars, threeFloat32Array,
                 frameNo, lastFrame, calls, lastPinchCall, clsVars, logVars, genVars,
                 disposeCalls, pollVars, instVars>>

----------------------------------------------------------------------------
(* useGestureRecognition.onResults and the GestureTree callbacks           *)

\* if (is && !was) { was = true; callback() } else if (!is) was = false
\* level-triggered variant of the one-shot test
FiresLevel(is, was) == is

Fires(is, was) == is /\ ~was

Latch(is, was) == IF is /\ ~was THEN TRUE ELSE IF ~is THEN FALSE ELSE was

\* variant of the strength that is always zero
StrengthNone(fingersCurled) == 0

\* variant of the strength that divides by three
StrengthThirds(fingersCurled) == (fingersCurled * 100) \div 3

\* strength = fingersCurled / 4.0, in hundredths
Strength(fingersCurled) == fingersCurled * 25

FistCall(ev) ==
  [cb |-> "fist", strength |-> Strength(ev.fingersCurled),
   x |-> ev.palmBase.x, y |-> ev.palmBase.y]

\* variant of the no-gesture test that only accepts a fully open hand
NoGestureOpenHand(ev) ==
  ~ev.isFist /\ ~ev.isOneFinger /\ ~ev.isTwoFingers /\ ~ev.isThreeFingers
  /\ ev.fingersCurled = 0

\* variant of the no-gesture test that accepts every hand that is not a
\* fist
NoGestureNotFist(ev) == ~ev.isFist

NoGestureCondition(ev) ==
  ~ev.isFist /\ ~ev.isOneFinger /\ ~ev.isTwoFingers /\ ~ev.isThreeFingers

\* edge-triggered variant of the fist branch: the fist callback only on the
\* first frame of a fist
PinchCallsEdge(ev) ==
  IF ev.isFist THEN (IF isPinchingRef THEN << >> ELSE <<FistCall(ev)>>)
  ELSE IF NoGestureCondition(ev) THEN <<[cb |-> "none"]>>
  ELSE << >>

\* The fist / no-gesture branch of a frame with a classified hand.
PinchCalls(ev) ==
  IF ev.isFist THEN <<FistCall(ev)>>
  ELSE IF NoGestureCondition(ev) THEN <<[cb |-> "none"]>>
  ELSE << >>

\* Callbacks a frame invokes, in order.
CallsOf(ev) ==
  CASE ev.kind = "hand" ->
         (IF Fires(ev.isOneFinger, wasOneFinger)
            THEN <<[cb |-> "one"]>> ELSE << >>)
         \o (IF Fires(ev.isTwoFingers, wasTwoFingers)
               THEN <<[cb |-> "two"]>> ELSE << >>)
         \o (IF Fires(ev.isThreeFingers, wasThreeFingers)
               THEN <<[cb |-> "three"]>> ELSE << >>)
         \o PinchCalls(ev)
    [] ev.kind = "short"  -> << >>
    [] ev.kind = "nohand" -> <<[cb |-> "none"]>>

Called(cs, name) == \E i \in 1..Len(cs) : cs[i].cb = name

CallCount(cs, name) == Cardinality({i \in 1..Len(cs) : cs[i].cb = name})

\* variant of the theme step that cycles through four indexes
NextThemeOfFour(oldTheme) == (oldTheme + 1) % 4

\* newTheme = (oldTheme + 1) % 3
NextTheme(oldTheme) == (oldTheme + 1) % 3

\* onOneFingerGesture
OneFingerEffect(fired) ==
  IF fired
  THEN LET newTheme == NextTheme(colorThemeRef) IN
       /\ colorThemeRef' = newTheme
       /\ colorTheme' = IF threeSceneRef THEN newTheme ELSE colorTheme
  ELSE UNCHANGED <<colorThemeRef, colorTheme>>

\* variant of the snow test that ignores the isSnowing flag
SnowStartsAlways(fired) == fired

\* onTwoFingersGesture: starts snow and its 10 s stop timer, once
SnowStarts(fired) == fired /\ ~isSnowingRef

SnowTimers(fired) ==
  IF SnowStarts(fired) THEN <<[kind |-> "snow", rem |-> 10000]>> ELSE << >>

TwoFingersEffect(fired) ==
  IF SnowStarts(fired)
  THEN /\ isSnowingRef' = TRUE
       /\ isSnowing' = IF threeSceneRef THEN TRUE ELSE isSnowing
  ELSE UNCHANGED <<isSnowingRef, isSnowing>>

\* onThreeFingersGesture -> ThreeScene.createFireworks(0, 0, 0)
FireworkOrigin == [x |-> 0, y |-> 0, z |-> 0]

TriggerStarts(fired) == fired /\ threeSceneRef

ThreeFingersEffect(fired, snowTimers) ==
  IF TriggerStarts(fired)
  THEN /\ nTriggers < MaxTriggers
       /\ nTriggers' = nTriggers + 1
       /\ timers' = timers \o snowTimers
                      \o SpawnTimers(nTriggers + 1, FireworkOrigin)
       /\ fwArrays' = [fwArrays EXCEPT ![nTriggers + 1] =
                         createFireworkParticlesReturn]
       /\ fireworks' = fireworks \o createFireworkParticlesReturn
  ELSE /\ timers' = timers \o snowTimers
       /\ UNCHANGED <<nTriggers, fwArrays, fireworks>>

\* onFistGesture / onNoGesture -> updatePinchState, updateRotationTarget
PinchEffect(cs) ==
  IF Called(cs, "fist")
  THEN LET c == CHOOSE c \in {cs[i] : i \in 1..Len(cs)} : c.cb = "fist" IN
       /\ isPinchingRef' = TRUE
       /\ lastPinchCall' = [cb |-> "fist", strength |-> c.strength]
       /\ lastTick' = NoTick
       /\ IF threeSceneRef
          THEN /\ isPinching' = TRUE
               /\ pinchStrength' = c.strength
               /\ rotationTarget' = [x |-> (c.x - 500) * 2,
                                     y |-> (c.y - 500) * 2]
          ELSE UNCHANGED pinchVars
  ELSE IF Called(cs, "none")
  THEN /\ isPinchingRef' = FALSE
       /\ lastPinchCall' = [cb |-> "none", strength |-> 0]
       /\ lastTick' = NoTick
       /\ IF threeSceneRef
          THEN /\ isPinching' = FALSE
               /\ pinchStrength' = 0
               /\ UNCHANGED rotationTarget
          ELSE UNCHANGED pinchVars
  ELSE UNCHANGED <<isPinchingRef, lastPinchCall, lastTick, pinchVars>>

\* onResults for a frame observed as ev
OnResults(ev) ==
  /\ frameNo' = (frameNo + 1) % 2
  /\ IF ~isMounted
     THEN /\ lastFrame' = [kind |-> "unmounted"]
          /\ calls' = << >>
          /\ UNCHANGED <<hookVars, compVars, sceneVars, timerVars,
                         lastPinchCall, lastTick>>
     ELSE LET cs == CallsOf(ev) IN
          /\ lastFrame' = ev
          /\ calls' = cs
          /\ IF ev.kind = "hand"
             THEN /\ wasOneFinger' = Latch(ev.isOneFinger, wasOneFinger)
                  /\ wasTwoFingers' = Latch(ev.isTwoFingers, wasTwoFingers)
                  /\ wasThreeFingers' =
                       Latch(ev.isThreeFingers, wasThreeFingers)
             ELSE UNCHANGED <<wasOneFinger, wasTwoFingers, wasThreeFingers>>
          /\ OneFingerEffect(Called(cs, "one"))
          /\ TwoFingersEffect(Called(cs, "two"))
          /\ ThreeFingersEffect(Called(cs, "three"),
                                SnowTimers(Called(cs, "two")))
          /\ PinchEffect(cs)
          /\ UNCHANGED <<isMounted, threeSceneRef, time, animationFrameId,
                         sceneObjs, disposedObjs>>
  /\ UNCHANGED <<threeFloat32Array, clsVars, logVars, genVars, pts, disposeCalls, pollVars,
                 instVars>>

\* A frame delivered while the hook is mounted
Frame == isMounted /\ \E ev \in FrameEvents : OnResults(ev)

\* A frame delivered after the hook's cleanup
LateFrame == ~isMounted /\ OnResults([kind |-> "nohand"])

----------------------------------------------------------------------------
(* Timers                                                                  *)

Min(S) == CHOOSE m \in S : \A n \in S : m <= n

Remove(seq, i) == [j \in 1..(Len(seq) - 1) |->
                     IF j < i THEN seq[j] ELSE seq[j + 1]]

\* The timer the event loop runs next: the first one that is due.
Due == {i \in 1..Len(timers) : timers[i].rem = 0}

\* Time passes up to the next timer's due time.
Elapse ==
  /\ timers # << >>
  /\ Due = {}
  /\ LET d == Min({timers[i].rem : i \in 1..Len(timers)}) IN
     timers' = [i \in 1..Len(timers) |->
                  [timers[i] EXCEPT !.rem = timers[i].rem - d]]
  /\ UNCHANGED <<hookVars, compVars, sceneVars, fwArrays, nTriggers,
                 threeFloat32Array, obsVars, clsVars, logVars, genVars, pts, disposeCalls,
                 pollVars, instVars>>

\* The snow-stop callback of onTwoFingersGesture
SnowTimerFires ==
  /\ isSnowingRef' = FALSE
  /\ isSnowing' = IF threeSceneRef THEN FALSE ELSE isSnowing
  /\ UNCHANGED <<isPinchingRef, colorThemeRef, threeSceneRef, time,
                 pinchVars, colorTheme, fireworks, animationFrameId,
                 sceneObjs, disposedObjs, fwArrays, threeFloat32Array>>

\* A spawn callback of createFireworkParticles.  It builds its colour
\* buffer with THREE.Float32Array: where the three module has no such
\* export the callback throws before it adds anything.
SpawnTimerFires(t) ==
  /\ threeFloat32Array' \in
       (IF threeFloat32Array = "unknown" THEN {"exported", "missing"}
        ELSE {threeFloat32Array})
  /\ IF threeFloat32Array' = "exported"
     THEN /\ sceneObjs' = sceneObjs \cup {<<t.trigger, t.layerIndex>>}
          /\ fwArrays' = [fwArrays EXCEPT ![t.trigger] =
                            Append(@, NewBurst(t.trigger, t.layerIndex,
                                               t.origin))]
     ELSE UNCHANGED <<sceneObjs, fwArrays>>
  /\ UNCHANGED <<compVars, time, pinchVars, colorTheme, isSnowing,
                 fireworks, animationFrameId, disposedObjs>>

TimerFires ==
  /\ Due # {}
  /\ LET i == Min(Due) IN
     /\ timers' = Remove(timers, i)
     /\ IF timers[i].kind = "snow" THEN SnowTimerFires
        ELSE SpawnTimerFires(timers[i])
  /\ UNCHANGED <<hookVars, nTriggers, obsVars, clsVars, logVars, genVars, pts, disposeCalls,
                 pollVars, instVars>>

----------------------------------------------------------------------------
(* Unmount: the effect cleanups of GestureTree and useGestureRecognition   *)

\* variant of the cancellation that leaves the frame requested
KeepFrame(id) == id

\* if (this.animationFrameId) { cancelAnimationFrame(..);
\* this.animationFrameId = null }
CancelFrame(id) == FALSE

\* ThreeScene.dispose cancels the pending animation frame; the component
\* drops its reference; the hook clears isMountedRef and closes the tracker
\* and the camera.
Unmount ==
  /\ isMounted
  /\ animationFrameId' = CancelFrame(animationFrameId)
  /\ threeSceneRef' = FALSE
  /\ isMounted' = FALSE
  /\ lastFrame' = [kind |-> "none"]
  /\ calls' = << >>
  /\ lastTick' = NoTick
  /\ disposeCalls' = 1
  /\ handsInstance' = FALSE
  /\ cameraInstance' = FALSE
  /\ UNCHANGED <<wasOneFinger, wasTwoFingers, wasThreeFingers,
                 isPinchingRef, colorThemeRef, isSnowingRef, time, pinchVars,
                 colorTheme, isSnowing, fireworks, sceneObjs, disposedObjs,
                 timerVars, threeFloat32Array, frameNo, lastPinchCall,
                 clsVars, logVars, genVars, pts, pollVars>>

\* ThreeScene.dispose called again on a scene already disposed, by a holder
\* of the object: the frame test and the release calls run again.
DisposeAgain ==
  /\ disposeCalls >= 1
  /\ animationFrameId' = CancelFrame(animationFrameId)
  /\ disposeCalls' = 2
  /\ UNCHANGED <<hookVars, compVars, time, pinchVars, colorTheme, isSnowing,
                 fireworks, sceneObjs, disposedObjs, timerVars,
                 threeFloat32Array, obsVars, clsVars, logVars, genVars, pts, pollVars,
                 instVars>>

----------------------------------------------------------------------------
(* initCamera of the hook: waiting for the scripts, then the camera        *)

MAX_ATTEMPTS == 100

\* the component's errorMessage state before any report
NoMessage == ""

LOAD_MESSAGE == "MediaPipe failed to load. Please check connection and refresh."

CAMERA_MESSAGE == "Camera access denied. Please allow camera permissions."

\* variant of the loop bound that allows one more wait
KeepPollingOnceMore(n) == n < MAX_ATTEMPTS + 1

\* the bound of the waiting loop: attempts < 100
KeepPolling(n) == n < MAX_ATTEMPTS

\* The scene, the component and the observations are not touched by
\* initCamera.
initUntouched ==
  UNCHANGED <<compVars, sceneVars, timerVars, threeFloat32Array, obsVars,
              clsVars, genVars, pts, disposeCalls>>

\* One turn of the waiting loop: the scripts are missing and the bound is
\* not reached; wait 50 ms, attempts++.
Poll ==
  /\ initPc = "polling"
  /\ ~libLoaded /\ KeepPolling(attempts)
  /\ attempts' = attempts + 1
  /\ UNCHANGED <<initPc, libLoaded, cameraStatus, errorReports, instVars,
                 hookVars, logVars>>
  /\ initUntouched

\* The page finishes loading window.Hands and the Camera class.
LibraryLoads ==
  /\ ~libLoaded
  /\ libLoaded' = TRUE
  /\ UNCHANGED <<initPc, attempts, cameraStatus, errorReports, instVars,
                 hookVars, logVars>>
  /\ initUntouched

\* The loop ends; unmounted: return. Scripts still missing: onError and
\* onStatusChange('ERROR'), return. Otherwise the tracker and the camera
\* are created and the camera's start is awaited.
PollEnds ==
  /\ initPc = "polling"
  /\ ~(~libLoaded /\ KeepPolling(attempts))
  /\ IF ~isMounted
     THEN /\ initPc' = "returned"
          /\ UNCHANGED <<cameraStatus, errorReports, instVars, logVars>>
     ELSE IF ~libLoaded
     THEN /\ initPc' = "failed"
          /\ errorReports' = errorReports + 1
          /\ cameraStatus' = "ERROR"
          /\ errorMessage' = LOAD_MESSAGE
          /\ statusLog' = statusLog \cup {"ERROR"}
          /\ UNCHANGED instVars
     ELSE /\ initPc' = "starting"
          /\ handsInstance' = TRUE
          /\ cameraInstance' = TRUE
          /\ UNCHANGED <<cameraStatus, errorReports, logVars>>
  /\ UNCHANGED <<attempts, libLoaded, hookVars>>
  /\ initUntouched

\* camera.start() resolves: ACTIVE if still mounted.
CameraStarted ==
  /\ initPc = "starting"
  /\ initPc' = "active"
  /\ cameraStatus' = IF isMounted THEN "ACTIVE" ELSE cameraStatus
  /\ statusLog' = IF isMounted THEN statusLog \cup {"ACTIVE"} ELSE statusLog
  /\ UNCHANGED errorMessage
  /\ UNCHANGED <<attempts, libLoaded, errorReports, instVars, hookVars>>
  /\ initUntouched

\* variant of the catch that reports the load-failure message
CatchMessageLoad == LOAD_MESSAGE

\* the message the catch passes to onError
CatchMessage == CAMERA_MESSAGE

\* variant of the catch without the mounted test
CatchReportsAlways ==
  /\ cameraStatus' = "ERROR"
  /\ errorReports' = errorReports + 1
  /\ errorMessage' = CatchMessage
  /\ statusLog' = statusLog \cup {"ERROR"}

\* catch (e): if (isMountedRef.current) { onStatusChange('ERROR');
\* onError('Camera access denied...') }
CatchReports ==
  IF isMounted
  THEN /\ cameraStatus' = "ERROR"
       /\ errorReports' = errorReports + 1
       /\ errorMessage' = CatchMessage
       /\ statusLog' = statusLog \cup {"ERROR"}
  ELSE UNCHANGED <<cameraStatus, errorReports, logVars>>

\* camera.start() rejects: the catch reports ERROR and the message if
\* still mounted.
CameraDenied ==
  /\ initPc = "starting"
  /\ initPc' = "denied"
  /\ CatchReports
  /\ UNCHANGED <<attempts, libLoaded, instVars, hookVars>>
  /\ initUntouched

\* new window.Hands(..) or setOptions throws after the loop has found the
\* scripts: control goes to the catch before any reference is stored.
TrackerThrows ==
  /\ initPc = "polling"
  /\ ~(~libLoaded /\ KeepPolling(attempts))
  /\ isMounted /\ libLoaded
  /\ initPc' = "denied"
  /\ CatchReports
  /\ UNCHANGED <<attempts, libLoaded, instVars, hookVars>>
  /\ initUntouched

----------------------------------------------------------------------------
(* The position generators (utils.calculateTreeParticlePositions,          *)
(* calculateExplodedParticlePositions).  Coordinates in units of 1/10000,  *)
(* random draws in [0, 1) in units of 1/10000.                             *)

MaxCount == 2

MaxCalls == 2

\* noise3D(i, 0, 0), noise3D(0, i, 0), noise3D(0, 0, i) for i = 0..5:
\* the fractional part of sin(12.9898 x + 78.233 y + 37.719 z) * 43758.5453
NoiseTable ==
  << <<0, 9216, 572, 5582, 3737, 4534>>,
     <<0, 1829, 271, 2694, 2114, 561>>,
     <<0, 2194, 946, 2816, 4366, 2162>> >>

\* noise3D for the arguments the exploded generator passes: one coordinate
\* is the particle index and the other two are 0
noise3D(x, y, z) ==
  IF y = 0 /\ z = 0 THEN NoiseTable[1][x + 1]
  ELSE IF x = 0 /\ z = 0 THEN NoiseTable[2][y + 1]
  ELSE NoiseTable[3][z + 1]

\* variant of the allocation with one element per particle
ArrayLengthPerParticle(particleCount) == particleCount

\* new Float32Array(particleCount * 3): the length of the zero-filled array
ArrayLength(particleCount) == particleCount * 3

Float32Array(n) == [k \in 1..n |-> 0]

\* positions[idx] = val on a typed array: a write past the end is dropped
Store(arr, idx, val) ==
  IF idx < Len(arr) THEN [arr EXCEPT ![idx + 1] = val] ELSE arr

Store3(arr, i3, v) ==
  Store(Store(Store(arr, i3, v[1]), i3 + 1, v[2]), i3 + 2, v[3])

\* cos and sin of i * GOLDEN_ANGLE for i = 0..5
CosGolden == <<10000, -7374, 874, 6084, -9847, 8438>>

SinGolden == <<0, 6755, -9962, 7936, -1742, -5367>>

\* Math.pow(1 - layerIndex / 12, 1.3) for layerIndex = 0..11
Pow13 ==
  <<10000, 8930, 7890, 6880, 5903, 4962, 4061, 3204, 2397, 1649, 974, 395>>

\* TREE_RADIUS * (linearFactor * 0.8 + curvedFactor * 0.2), TREE_RADIUS = 10
layerRadiusMax(layerIndex) ==
  8 * (((12 - layerIndex) * 10000) \div 12) + 2 * Pow13[layerIndex + 1]

Max(a, b) == IF a >= b THEN a ELSE b

\* The random draws one particle of the tree consumes, in call order:
\* randomCheck, the redistributed layer, the radius, yRandomness,
\* depthJitter.
Draws ==
  { [check |-> 2000, layer |-> 5000, radius |-> 2500, y |-> 5000,
     depth |-> 5000],
    [check |-> 9999, layer |-> 9999, radius |-> 9999, y |-> 0,
     depth |-> 9999],
    [check |-> 5000, layer |-> 3000, radius |-> 100, y |-> 9999,
     depth |-> 0] }

\* The loop body of the tree generator for particle i: the three
\* coordinates it writes.
TreePoint(i, particleCount, u) ==
  LET redistributed == u.check * particleCount
                         > 10000 * particleCount - 7000 * i
      layerIndex == IF redistributed THEN (u.layer * 6) \div 10000
                    ELSE (i * 12) \div particleCount
      radius == IF redistributed THEN layerRadiusMax(layerIndex)
                ELSE Max(2000, layerRadiusMax(layerIndex))
      r      == (radius * SqrtBetween(u.radius * 10000, 0, 10000))
                  \div 10000
      y      == (layerIndex * 250000) \div 12 - 125000 - (r * 4) \div 10
      yRandomness == Quot((u.y - 5000) * 6, 10)
      depthJitter == Quot((u.depth - 5000) * (8000 + layerIndex * 1000),
                          10000)
  IN << Quot(CosGolden[i + 1] * r, 10000) + Quot(depthJitter * 3, 10),
        y + yRandomness,
        Quot(SinGolden[i + 1] * r, 10000) + Quot(depthJitter * 3, 10) >>

RECURSIVE TreeLoop(_, _, _, _)
TreeLoop(positions, i, particleCount, rnd) ==
  IF i >= particleCount THEN positions
  ELSE TreeLoop(Store3(positions, i * 3, TreePoint(i, particleCount, rnd[i])),
                i + 1, particleCount, rnd)

\* rnd: the values Math.random returns to the call, per particle
calculateTreeParticlePositions(particleCount, rnd) ==
  TreeLoop(Float32Array(ArrayLength(particleCount)), 0, particleCount, rnd)

\* variant of the exploded coordinate that draws from Math.random
ExplodedCoordinateRandom(noise, u) == (u.check - 5000) * 60

\* (noise - 0.5) * spread, spread = 60; u: what Math.random would return
\* at this point, which the generator does not ask for
ExplodedCoordinate(noise, u) == (noise - 5000) * 60

ExplodedPoint(i, u) ==
  << ExplodedCoordinate(noise3D(i, 0, 0), u),
     ExplodedCoordinate(noise3D(0, i, 0), u),
     ExplodedCoordinate(noise3D(0, 0, i), u) >>

RECURSIVE ExplodedLoop(_, _, _, _)
ExplodedLoop(positions, i, particleCount, rnd) ==
  IF i >= particleCount THEN positions
  ELSE ExplodedLoop(Store3(positions, i * 3, ExplodedPoint(i, rnd[i])),
                    i + 1, particleCount, rnd)

calculateExplodedParticlePositions(particleCount, rnd) ==
  ExplodedLoop(Float32Array(ArrayLength(particleCount)), 0, particleCount,
               rnd)

genUntouched ==
  UNCHANGED <<hookVars, compVars, sceneVars, timerVars, threeFloat32Array,
              obsVars, clsVars, pts, disposeCalls, pollVars, instVars,
              logVars>>

\* One call of the tree generator, with any particle count and any draws.
CallTree ==
  /\ Len(genCalls) < MaxCalls
  /\ \E n \in 0..MaxCount : \E rnd \in [0..(n - 1) -> Draws] :
       genCalls' = Append(genCalls,
                     [fn |-> "tree", particleCount |-> n,
                      positions |-> calculateTreeParticlePositions(n, rnd)])
  /\ genUntouched

\* One call of the exploded generator, with any particle count, whatever
\* Math.random would return at the time.
CallExploded ==
  /\ Len(genCalls) < MaxCalls
  /\ \E n \in 0..MaxCount : \E rnd \in [0..(n - 1) -> Draws] :
       genCalls' = Append(genCalls,
                     [fn |-> "exploded", particleCount |-> n,
                      positions |->
                        calculateExplodedParticlePositions(n, rnd)])
  /\ genUntouched

----------------------------------------------------------------------------
(* Specifications                                                          *)

Pending == [pending |-> TRUE]

\* The state after GestureTree has mounted: scene constructed (the
\* constructor runs animate once: one tick at pinchStrength 0, the next
\* frame requested), hook mounted.
InitMounted ==
  /\ isMounted = TRUE
  /\ wasOneFinger = FALSE /\ wasTwoFingers = FALSE /\ wasThreeFingers = FALSE
  /\ colorThemeRef = 0 /\ isSnowingRef = FALSE
  /\ threeSceneRef = TRUE
  /\ time = 1
  /\ colorTheme = 0 /\ isSnowing = FALSE
  /\ animationFrameId = TRUE
  /\ disposedObjs = {}
  /\ timers = << >>
  /\ fwArrays = [t \in 1..MaxTriggers |-> << >>]
  /\ nTriggers = 0
  /\ threeFloat32Array = "unknown"
  /\ disposeCalls = 0

\* No frame delivered yet.
InitIdle ==
  /\ isPinchingRef = FALSE
  /\ isPinching = FALSE /\ pinchStrength = 0
  /\ rotationTarget = [x |-> 0, y |-> 0]
  /\ frameNo = 0
  /\ lastFrame = [kind |-> "none"]
  /\ calls = << >>
  /\ lastPinchCall = [cb |-> "init", strength |-> 0]
  /\ lastTick = [target |-> [i \in Particles |-> TargetOf(0)],
                 force  |-> [i \in Particles |-> ForceOf(0)]]

\* initCamera has found the scripts at its first look, created the tracker
\* and the camera, and reported ACTIVE.
InitTracking ==
  /\ initPc = "active"
  /\ attempts = 0
  /\ libLoaded = TRUE
  /\ cameraStatus = "ACTIVE"
  /\ errorReports = 0
  /\ handsInstance = TRUE
  /\ cameraInstance = TRUE
  /\ errorMessage = NoMessage
  /\ statusLog = {"ACTIVE"}

InitProgram == InitMounted /\ InitIdle /\ InitTracking

\* The effect has just called initCamera: no script seen yet, status
\* LOADING, no tracker, no camera.
InitLoading ==
  /\ InitMounted /\ InitIdle
  /\ initPc = "polling"
  /\ attempts = 0
  /\ libLoaded \in BOOLEAN
  /\ cameraStatus = "LOADING"
  /\ errorReports = 0
  /\ handsInstance = FALSE
  /\ cameraInstance = FALSE
  /\ errorMessage = NoMessage
  /\ statusLog = {}
  /\ fireworks = << >>
  /\ sceneObjs = {}
  /\ clsInput = NULL
  /\ clsResult = Pending
  /\ genCalls = << >>
  /\ pts = << >>

Init ==
  /\ InitProgram
  /\ fireworks = << >>
  /\ sceneObjs = {}
  /\ clsInput = NULL
  /\ clsResult = Pending
  /\ genCalls = << >>
  /\ pts = << >>

Next == Frame \/ LateFrame \/ Tick \/ Elapse \/ TimerFires \/ Unmount

Spec == Init /\ [][Next]_vars

\* The same program under the scheduling the browser gives it: the
\* animation frame keeps being served while one is requested, and pending
\* timers run when due.
SpecLive ==
  Init /\ [][Next]_vars /\ WF_vars(Tick) /\ WF_vars(TimerFires)
       /\ WF_vars(Elapse)

\* The program with a holder of the scene that may call dispose again.
SpecDispose ==
  Init /\ [][Frame \/ LateFrame \/ Tick \/ Elapse \/ TimerFires \/ Unmount
              \/ DisposeAgain]_vars

\* The start of the hook: initCamera from its first look for the scripts,
\* with the page loading them at any moment and the component free to
\* unmount.
SpecInit ==
  InitLoading /\ [][Poll \/ LibraryLoads \/ PollEnds \/ TrackerThrows
                     \/ CameraStarted \/ CameraDenied \/ Unmount]_vars

\* The two position generators, called with any particle counts.
SpecGenerate == Init /\ [][CallTree \/ CallExploded]_vars

----------------------------------------------------------------------------
(* The classifier alone, applied to each input                             *)

Classify ==
  /\ clsResult = Pending
  /\ clsResult' = calculateFingerStates(clsInput)
  /\ UNCHANGED <<hookVars, compVars, sceneVars, timerVars,
                 threeFloat32Array, obsVars, clsInput, pts, disposeCalls,
                 logVars, genVars,
                 pollVars, instVars>>

InitClassify ==
  /\ InitProgram
  /\ fireworks = << >>
  /\ sceneObjs = {}
  /\ clsInput \in ClassifierInputs
  /\ clsResult = Pending
  /\ genCalls = << >>
  /\ pts = << >>

SpecClassify == InitClassify /\ [][Classify]_vars

----------------------------------------------------------------------------
(* updateFireworks alone, applied to a live set holding bursts as the      *)
(* spawn callbacks build them, aged by earlier ticks.  (In the assembled   *)
(* program createFireworks never hands a burst to this.fireworks.)         *)

\* fw after n ticks of updateFireworks (the age test only makes the
\* intermediate burst a computed value before the second half runs)
RECURSIVE Aged(_, _)
Aged(fw, n) ==
  IF n = 0 THEN fw
  ELSE IF n = 1 THEN StepBurst(fw)
  ELSE LET half == Aged(fw, n \div 2) IN
       IF half.age >= 0 THEN Aged(half, n - (n \div 2)) ELSE half

\* ticks already run on a seeded burst
SeedTicks == {0, 100, 186}

SeedBursts ==
  { Aged(NewBurst(1, l, FireworkOrigin), n) : l \in 0..2, n \in SeedTicks }

SeededLiveSets ==
  { list \in UNION { [1..n -> SeedBursts] : n \in 0..MaxLive } :
      \A i, j \in DOMAIN list : i # j => list[i].id # list[j].id }

InitFireworks ==
  /\ InitProgram
  /\ fireworks \in SeededLiveSets
  /\ sceneObjs = {fireworks[i].id : i \in 1..Len(fireworks)}
  /\ clsInput = NULL
  /\ clsResult = Pending
  /\ genCalls = << >>
  /\ pts = << >>

SpecFireworks == InitFireworks /\ [][Tick]_vars

----------------------------------------------------------------------------
(* The particle loop followed on one particle                              *)

\* a fist frame that sets no finger latch
PureFists ==
  {ev \in FrameEvents : IsHand(ev) /\ ev.isFist /\ ~ev.isOneFinger}

\* The state after the first frame, a fist frame ev, has been dispatched.
InitPinched(ev) ==
  /\ isPinchingRef = TRUE
  /\ isPinching = TRUE /\ pinchStrength = Strength(ev.fingersCurled)
  /\ rotationTarget = [x |-> (ev.palmBase.x - 500) * 2,
                       y |-> (ev.palmBase.y - 500) * 2]
  /\ frameNo = 1
  /\ lastFrame = ev
  /\ calls = <<FistCall(ev)>>
  /\ lastPinchCall = [cb |-> "fist", strength |-> Strength(ev.fingersCurled)]
  /\ lastTick = NoTick

Particle(pos, vel, tree, exploded) ==
  [pos |-> pos, vel |-> vel, tree |-> tree, exploded |-> exploded,
   imp |-> Zero3, jit |-> Zero3, dist |-> 0]

\* offsets of a particle from its tree target: on it, within 0.01, at 0.01,
\* just beyond, and farther
TreeOffsets ==
  {Zero3, <<0, 0, 50>>, <<60, 80, 0>>, <<0, 0, 105>>, <<300, 400, 0>>,
   <<-3000, 0, 4000>>}

\* offsets of the exploded target from the particle
ExplodedOffsets == {Zero3, <<0, 30, 40>>, <<0, 0, 500>>, <<1500, -2000, 0>>}

Velocities == {Zero3, <<1000, -2000, 55>>}

PhysicsParticles ==
  { Particle(o, v, Zero3, VAdd(o, e)) :
      o \in TreeOffsets, e \in ExplodedOffsets, v \in Velocities }

InitPhysics ==
  /\ InitMounted /\ InitTracking
  /\ InitIdle \/ \E ev \in PureFists : InitPinched(ev)
  /\ fireworks = << >>
  /\ sceneObjs = {}
  /\ clsInput = NULL
  /\ clsResult = Pending
  /\ genCalls = << >>
  /\ pts \in {<<p>> : p \in PhysicsParticles}

\* the first tick after the state above
OneTick == time = 1 /\ Tick

SpecPhysics == InitPhysics /\ [][OneTick]_vars

\* The buffers setupParticleSystem fills for particle i: the position
\* starts on the Exploded target, the velocity at zero; the Tree target
\* sits at a distance that grows with i.
SetupParticle(i) ==
  Particle(<<300 * i, 400 * i, 0>>, Zero3, Zero3, <<300 * i, 400 * i, 0>>)

\* The mounted program with its particle buffers, after the constructor's
\* first tick drew no jitter.
InitScene ==
  /\ InitProgram
  /\ fireworks = << >>
  /\ sceneObjs = {}
  /\ clsInput = NULL
  /\ clsResult = Pending
  /\ genCalls = << >>
  /\ pts = [i \in Particles |-> SetupParticle(i)]

\* The program with its particles, followed through frames, timers and
\* unmount around one tick.
SpecScene ==
  InitScene /\ [][Frame \/ LateFrame \/ OneTick \/ Elapse \/ TimerFires
                   \/ Unmount]_vars

\* Velocities from rest up to speed 3.15, along and against the directions
\* of the two targets and across them
BoundedVelocities ==
  {Zero3, <<18900, 25200, 0>>, <<-18900, -25200, 0>>, <<18900, -25200, 0>>,
   <<0, 0, 31500>>, <<18000, 18000, 18000>>}

\* particles 0.5 and 1.0 from their tree target, and one within 0.01 of it;
\* the exploded target on the particle or 0.25 from it
MovingParticles ==
  { Particle(o, v, Zero3, VAdd(o, e)) :
      o \in {<<-3000, -4000, 0>>, <<0, 0, 50>>, <<-6000, 0, 8000>>},
      e \in {Zero3, <<1500, -2000, 0>>},
      v \in BoundedVelocities }

InitSpeed ==
  /\ InitMounted /\ InitTracking
  /\ InitIdle \/ \E ev \in PureFists : InitPinched(ev)
  /\ fireworks = << >>
  /\ sceneObjs = {}
  /\ clsInput = NULL
  /\ clsResult = Pending
  /\ genCalls = << >>
  /\ pts \in {<<p>> : p \in MovingParticles}

\* One tick from each velocity within the bound, under each pinch state.
SpecSpeed == InitSpeed /\ [][OneTick]_vars

\* particles at rest at some distance from their tree target
RestingParticles ==
  { Particle(o, Zero3, Zero3, <<0, 0, 5000>>) :
      o \in {<<0, 0, 50>>, <<30, 45, 90>>, <<102, 136, 0>>,
             <<1803, 0, 0>>} }

\* a fist with four fingers curled is held: pinchStrength = 1 on every tick
InitConverge ==
  /\ InitMounted /\ InitTracking
  /\ \E ev \in PureFists : ev.fingersCurled = 4 /\ InitPinched(ev)
  /\ fireworks = << >>
  /\ sceneObjs = {}
  /\ clsInput = NULL
  /\ clsResult = Pending
  /\ genCalls = << >>
  /\ pts \in {<<p>> : p \in RestingParticles}

SpecConverge == InitConverge /\ [][Tick]_vars /\ WF_vars(Tick)

----------------------------------------------------------------------------
(* The hook from the call of initCamera to its cleanup: results are        *)
(* delivered once the camera has started (onFrame sends the video image to *)
(* the tracker), and a result of a send in flight may still arrive after   *)
(* the cleanup.                                                            *)

\* A result delivered by the tracker of a started camera, hook mounted
TrackedFrame == initPc = "active" /\ Frame

\* A result of a send in flight, delivered after the cleanup
TrackedLateFrame == initPc = "active" /\ LateFrame

SpecHook ==
  InitLoading /\ [][Poll \/ LibraryLoads \/ PollEnds \/ TrackerThrows
                     \/ CameraStarted \/ CameraDenied \/ TrackedFrame
                     \/ TrackedLateFrame \/ Unmount]_vars

----------------------------------------------------------------------------
(* Properties                                                              *)

\* A step that delivers a frame to a mounted hook
FrameStep == frameNo' # frameNo /\ isMounted

\* The gesture conditions of a frame; false where the frame has no
\* classified hand
CondOne(ev)   == IsHand(ev) /\ ev.isOneFinger
CondTwo(ev)   == IsHand(ev) /\ ev.isTwoFingers
CondThree(ev) == IsHand(ev) /\ ev.isThreeFingers

\* C1: over consecutive frames that each carry a complete hand (or on the
\* first frame, the latches being inactive), each one-shot callback is
\* invoked exactly when its condition holds on this frame and did not hold
\* on the previous one, and then only once.
C1_EdgeTriggered ==
  [][ (FrameStep /\ IsHand(lastFrame')
       /\ lastFrame.kind \in {"hand", "none"})
      => /\ Called(calls', "one")
              <=> (CondOne(lastFrame') /\ ~CondOne(lastFrame))
         /\ Called(calls', "two")
              <=> (CondTwo(lastFrame') /\ ~CondTwo(lastFrame))
         /\ Called(calls', "three")
              <=> (CondThree(lastFrame') /\ ~CondThree(lastFrame))
         /\ CallCount(calls', "one") <= 1
         /\ CallCount(calls', "two") <= 1
         /\ CallCount(calls', "three") <= 1 ]_vars

\* a frame on which the one-finger pose is held and its callback is not
\* invoked again
C1_Witness ==
  /\ isMounted /\ IsHand(lastFrame) /\ lastFrame.isOneFinger
  /\ wasOneFinger /\ ~Called(calls, "one") /\ colorTheme = 1

\* C2: on every frame on which a gesture's condition is false, of whatever
\* kind, its latch is inactive afterwards; and so a frame on which the
\* condition holds after a frame on which it did not invokes the callback.
C2_LatchRearmsOnAnyFrame ==
  [][ FrameStep
      => /\ ~CondOne(lastFrame') => ~wasOneFinger'
         /\ ~CondTwo(lastFrame') => ~wasTwoFingers'
         /\ ~CondThree(lastFrame') => ~wasThreeFingers'
         /\ (lastFrame.kind # "none" /\ CondOne(lastFrame')
             /\ ~CondOne(lastFrame)) => Called(calls', "one")
         /\ (lastFrame.kind # "none" /\ CondTwo(lastFrame')
             /\ ~CondTwo(lastFrame)) => Called(calls', "two") ]_vars

\* A step that runs the spawn callback of a burst layer
SpawnStep ==
  /\ Due # {}
  /\ Len(timers') < Len(timers)
  /\ timers[Min(Due)].kind = "fw"

LayerCount(layerIndex) ==
  CASE layerIndex = 0 -> 200 [] layerIndex = 1 -> 150 [] layerIndex = 2 -> 100

\* C3: when a layer's spawn delay has elapsed and its callback has run, the
\* scene's live set holds a new active burst of that layer with age 0,
\* lifetime 3.0 and the layer's particle count, at the trigger origin.
C3_SpawnedBurstInLiveSet ==
  [][ SpawnStep
      => LET t == timers[Min(Due)] IN
         \E j \in 1..Len(fireworks') :
           /\ fireworks'[j].layerIndex = t.layerIndex
           /\ fireworks'[j].count = LayerCount(t.layerIndex)
           /\ fireworks'[j].age = 0
           /\ fireworks'[j].lifetime = 3000
           /\ fireworks'[j].active
           /\ fireworks'[j].origin = FireworkOrigin
           /\ fireworks'[j].y = FireworkOrigin.y ]_vars

\* The indexes of the live bursts a tick ages past their lifetime
Expiring == {i \in 1..Len(fireworks) : fireworks[i].age + 16 > 3000}

\* C4: a tick adds 0.016 to the age of every live burst; a burst whose age
\* then exceeds its lifetime is inactive, out of the scene, disposed, not
\* integrated, and out of the live set after the tick; the others stay, in
\* order; after a tick the live set holds only active bursts with
\* age <= lifetime.
C4_UpdateFireworks ==
  [][ time' # time
      => /\ \A i \in Expiring :
              LET fw == fireworks[i] IN
              /\ fw.id \notin sceneObjs'
              /\ \A j \in 1..Len(fireworks') : fireworks'[j].id # fw.id
              /\ \E d \in disposedObjs' :
                   /\ d.id = fw.id
                   /\ ~d.active
                   /\ d.age = fw.age + 16
                   /\ d.y = fw.y /\ d.vy = fw.vy /\ d.color = fw.color
         /\ Len(fireworks') = Len(fireworks) - Cardinality(Expiring)
         /\ \A i \in (1..Len(fireworks)) \ Expiring :
              LET j == i - Cardinality({k \in Expiring : k < i}) IN
              /\ fireworks'[j].id = fireworks[i].id
              /\ fireworks'[j].age = fireworks[i].age + 16
              /\ fireworks'[j].y = fireworks[i].y + fireworks[i].vy
              /\ fireworks[i].id \in sceneObjs'
         /\ \A j \in 1..Len(fireworks') :
              fireworks'[j].active /\ fireworks'[j].age <= 3000 ]_vars

\* a tick has just retired one burst while another is still live
C4_Witness ==
  /\ \E d \in disposedObjs : d.age = 3008 /\ ~d.active /\ d.id \notin sceneObjs
  /\ Len(fireworks) >= 1
  /\ fireworks[1].age < 3000

BurstIds == {<<t, l>> : t \in 1..MaxTriggers, l \in 0..2}

C6_FistEveryFrame ==
  (IsHand(lastFrame) /\ lastFrame.isFist)
    => /\ CallCount(calls, "fist") = 1
       /\ \A i \in 1..Len(calls) :
            calls[i].cb = "fist"
              => /\ 4 * calls[i].strength = 100 * lastFrame.fingersCurled
                 /\ calls[i].strength \in {75, 100}
                 /\ calls[i].x = FramePalm.x
                 /\ calls[i].y = FramePalm.y

\* a fist frame with three fingers curled (strength 0.75), and a tick after it
C6_Witness ==
  /\ IsHand(lastFrame) /\ lastFrame.isFist /\ lastFrame.fingersCurled = 3
  /\ Called(calls, "fist") /\ pinchStrength = 75
  /\ lastTick # NoTick

\* C7: a frame with no hand, and a frame with a complete hand and none of
\* the four flags, invokes the no-gesture callback once and nothing else,
\* and leaves the scene with isPinching = false and pinchStrength = 0.
C7_NoGestureReleases ==
  (lastFrame.kind = "nohand"
   \/ (IsHand(lastFrame) /\ ~lastFrame.isFist /\ ~lastFrame.isOneFinger
       /\ ~lastFrame.isTwoFingers /\ ~lastFrame.isThreeFingers))
    => /\ calls = <<[cb |-> "none"]>>
       /\ isPinching = FALSE
       /\ pinchStrength = 0

\* a hand with no recognised pose releases a scene that a fist had steered
C7_Witness ==
  /\ IsHand(lastFrame) /\ ~lastFrame.isFist /\ ~lastFrame.isOneFinger
  /\ ~lastFrame.isTwoFingers /\ ~lastFrame.isThreeFingers
  /\ lastFrame.fingersCurled = 3
  /\ calls = <<[cb |-> "none"]>>
  /\ rotationTarget # [x |-> 0, y |-> 0]
  /\ pinchStrength = 0

\* C8: a frame whose landmark array has fewer than 21 points invokes the
\* no-gesture callback, so the scene is left with pinchStrength 0.
C8_ShortFrameIsNoGesture ==
  lastFrame.kind = "short"
    => /\ calls = <<[cb |-> "none"]>>
       /\ pinchStrength = 0

\* C9: a tick that has run since the most recent fist or no-gesture
\* callback steered every particle by that callback's values: after a fist
\* of strength s, toward Tree with force gravityStrength * s; after a
\* no-gesture callback, and before any callback, toward Exploded.
C9_TickUsesLatestPinch ==
  lastTick # NoTick
    => \A i \in Particles :
         /\ lastPinchCall.cb = "fist"
              => /\ lastTick.target[i] = "Tree"
                 /\ lastTick.force[i] = 35 * lastPinchCall.strength
         /\ lastPinchCall.cb \in {"none", "init"}
              => lastTick.target[i] = "Exploded"

\* a tick after a three-finger fist frame and a later frame that invoked
\* neither callback
C9_Witness ==
  /\ lastTick # NoTick
  /\ lastPinchCall = [cb |-> "fist", strength |-> 75]
  /\ lastFrame.kind = "short"
  /\ \A i \in Particles : lastTick.target[i] = "Tree"

\* C10: for an input of at least 21 landmarks the classifier sets at most
\* one of isOneFinger, isTwoFingers, isThreeFingers.
C10_FingerFlagsExclusive ==
  (clsResult # Pending /\ clsResult # NULL)
    => CountTrue(<<clsResult.isOneFinger, clsResult.isTwoFingers,
                   clsResult.isThreeFingers>>) <= 1

\* a classified hand showing two fingers
C10_Witness ==
  /\ clsResult # Pending /\ clsResult # NULL
  /\ clsResult.isTwoFingers /\ ~clsResult.isOneFinger
  /\ Len(clsInput.pts) = 21

\* C11: for an input of at least 21 landmarks with the index tip more than
\* 0.15 from palm height and the middle, ring and pinky tips less than 0.12
\* from it, whatever the thumb, the classifier returns isOneFinger and none
\* of isFist, isTwoFingers, isThreeFingers.
C11_OneFingerOnly ==
  (clsResult # Pending /\ clsResult # NULL
   /\ Abs(clsResult.indexTip.y - clsResult.palmBase.y) > 150
   /\ Abs(clsResult.middleTip.y - clsResult.palmBase.y) < 120
   /\ Abs(clsResult.ringTip.y - clsResult.palmBase.y) < 120
   /\ Abs(clsResult.pinkyTip.y - clsResult.palmBase.y) < 120)
    => /\ clsResult.isOneFinger
       /\ ~clsResult.isFist
       /\ ~clsResult.isTwoFingers
       /\ ~clsResult.isThreeFingers

Dot(a, b) == a[1] * b[1] + a[2] * b[2] + a[3] * b[3]

Cross(a, b) == <<a[2] * b[3] - a[3] * b[2], a[3] * b[1] - a[1] * b[3],
                 a[1] * b[2] - a[2] * b[1]>>

\* A tick that steps the followed particle; its active target, the vector
\* to it and the force magnitude, read from the state before the tick.
ParticleTick == time' # time /\ Len(pts) = 1

ActiveTarget == IF pinchStrength > 1 THEN pts[1].tree ELSE pts[1].exploded

ToTarget == VSub(ActiveTarget, pts[1].pos)

Magnitude == IF pinchStrength > 1 THEN 35 * pinchStrength ELSE 2500

\* C12: in a tick, for a particle farther than 0.01 from its active target
\* (Tree when pinchStrength > 0.01, else Exploded), the attraction added to
\* the velocity is parallel to (target - position), points toward the
\* target and has magnitude gravityStrength * pinchStrength resp.
\* explosionStrength, whatever the distance.
C12_ConstantAttraction ==
  [][ (ParticleTick /\ Dot(ToTarget, ToTarget) > 100 * 100)
      => /\ Cross(pts'[1].imp, ToTarget) = Zero3
         /\ Dot(pts'[1].imp, ToTarget) > 0
         /\ Dot(pts'[1].imp, pts'[1].imp) = Magnitude * Magnitude
         /\ pts'[1].vel
              = Damp(VAdd(VAdd(pts[1].vel, pts'[1].imp), pts'[1].jit))
         /\ pts'[1].pos = VAdd(pts[1].pos, pts'[1].vel) ]_vars

\* a tick has attracted a particle toward its tree target at strength 0.75
C12_Witness ==
  /\ Len(pts) = 1 /\ time = 0 /\ pinchStrength = 75
  /\ pts[1].dist = 5000
  /\ Dot(pts[1].imp, pts[1].imp) = 2625 * 2625

\* C13: in a tick, a particle within 0.01 of its active target (distance 0
\* included) gets no attraction: its velocity becomes the damped sum of its
\* velocity and, when not pinching, the jitter.
C13_NoForceNearTarget ==
  [][ (ParticleTick /\ Dot(ToTarget, ToTarget) <= 100 * 100)
      => /\ pts'[1].imp = Zero3
         /\ (pinchStrength > 1) => pts'[1].jit = Zero3
         /\ \A c \in 1..3 :
              /\ pts'[1].jit[c] >= -150 /\ pts'[1].jit[c] < 150
              /\ pts'[1].vel[c]
                   = Quot((pts[1].vel[c] + pts'[1].jit[c]) * 90, 100) ]_vars

\* a tick has stepped an idle particle that sat exactly on its target
C13_Witness ==
  /\ Len(pts) = 1 /\ time = 0 /\ pinchStrength = 0
  /\ pts[1].dist = 0 /\ pts[1].imp = Zero3 /\ pts[1].jit # Zero3

\* The followed particle is within 0.01 of its tree target.
NearTree ==
  Len(pts) = 1
    => Dot(VSub(pts[1].tree, pts[1].pos),
           VSub(pts[1].tree, pts[1].pos)) <= 100 * 100

\* C14: with pinchStrength = 1 held and no jitter, the particle's distance
\* to its tree target is eventually within 0.01 and stays there.
C14_ConvergesToTree == <>[]NearTree

\* C15: in a tick that adds neither attraction nor jitter (pinching, the
\* particle within 0.01 of its tree target) no velocity component grows in
\* magnitude: each is multiplied by 0.90.
C15_DampingShrinks ==
  [][ (ParticleTick /\ pinchStrength > 1
       /\ Dot(ToTarget, ToTarget) <= 100 * 100)
      => \A c \in 1..3 :
           /\ Abs(pts'[1].vel[c]) <= Abs(pts[1].vel[c])
           /\ Abs(100 * pts'[1].vel[c] - 90 * pts[1].vel[c]) < 100 ]_vars

\* a tick has damped the velocity of a pinched particle near its target
C15_Witness ==
  /\ Len(pts) = 1 /\ time = 0 /\ pinchStrength = 100
  /\ pts[1].dist = 50
  /\ pts[1].vel = <<900, -1800, 49>>

\* C16: after any frames and ticks the scene's pinchStrength is within
\* [0, 1].
C16_PinchStrengthBounded == pinchStrength >= 0 /\ pinchStrength <= 100

\* full strength, kept across a malformed frame and a tick
C16_Witness ==
  /\ pinchStrength = 100 /\ lastFrame.kind = "short" /\ lastTick # NoTick

\* C17: once dispose has been called no step runs the tick logic or leaves
\* an animation frame requested, a second dispose included.
C17_NoTickAfterDispose ==
  [][ (disposeCalls >= 1 \/ disposeCalls' >= 1)
      => /\ time' = time
         /\ pts' = pts
         /\ fireworks' = fireworks
         /\ animationFrameId' = FALSE ]_vars

\* dispose has been called twice, and a frame and a timer came after it
C17_Witness ==
  /\ disposeCalls = 2 /\ ~animationFrameId
  /\ lastFrame.kind = "unmounted"
  /\ nTriggers = 1 /\ timers = << >>

\* A frame step that invokes the one-finger callback
OneFingerEvent == FrameStep /\ Called(calls', "one")

\* C18: the theme index is always 0, 1 or 2; a one-finger event advances
\* it to (index + 1) mod 3 and leaves the scene's colorTheme equal to it;
\* no other step changes either.
C18_ThemeCycles ==
  [][ /\ colorThemeRef' \in {0, 1, 2}
      /\ colorTheme' \in {0, 1, 2}
      /\ OneFingerEvent
           => /\ colorThemeRef' = (colorThemeRef + 1) % 3
              /\ colorTheme' = colorThemeRef'
      /\ ~OneFingerEvent
           => /\ colorThemeRef' = colorThemeRef
              /\ colorTheme' = colorTheme ]_vars

\* the third one-finger event has restored the starting theme
C18_Witness ==
  /\ IsHand(lastFrame) /\ Called(calls, "one")
  /\ colorThemeRef = 0 /\ colorTheme = 0

\* C19: initCamera waits at most 100 times and only while the scripts are
\* missing; when it stops with the scripts still missing and the component
\* mounted it reports the error and status ERROR once, and from then on
\* nothing more happens: no further wait, no report, no tracker, no camera,
\* no status ACTIVE.
C19_LoadFailureIsTerminal ==
  [][ /\ attempts' \in 0..MAX_ATTEMPTS
      /\ attempts' # attempts
           => /\ initPc = "polling" /\ ~libLoaded
              /\ attempts' = attempts + 1
      /\ (initPc = "polling" /\ initPc' # "polling"
            /\ ~libLoaded /\ isMounted)
           => /\ attempts = MAX_ATTEMPTS
              /\ initPc' = "failed"
              /\ errorReports' = 1
      /\ (initPc = "failed" \/ initPc' = "failed")
           => /\ initPc' = "failed"
              /\ attempts' = attempts
              /\ errorReports' = 1
              /\ cameraStatus' = "ERROR"
              /\ ~handsInstance' /\ ~cameraInstance' ]_vars

\* the load failure was reported, and the scripts arrived afterwards
C19_Witness ==
  /\ initPc = "failed" /\ attempts = MAX_ATTEMPTS /\ libLoaded
  /\ errorReports = 1 /\ cameraStatus = "ERROR"

\* C20: the opacity a tick sets on a burst that stays active is 1 while
\* age / lifetime <= 0.7 and 1 - (age / lifetime - 0.7) / 0.3 after that;
\* it is within [0, 1] and not above the burst's opacity before the tick.
\* Opacities are in units of 1 / (3 * lifetime).
C20_OpacitySchedule ==
  [][ \A i \in 1..Len(fireworks') :
        LET fw == fireworks'[i] IN
          /\ fw.active
          /\ fw.opacity = IF 10 * fw.age <= 7 * fw.lifetime
                          THEN 3 * fw.lifetime
                          ELSE 10 * (fw.lifetime - fw.age)
          /\ fw.opacity >= 0 /\ fw.opacity <= 3 * fw.lifetime
          /\ \A j \in 1..Len(fireworks) :
               fireworks[j].id = fw.id
                 => /\ fw.age = fireworks[j].age + FW_AGE_STEP
                    /\ fw.opacity <= fireworks[j].opacity ]_vars

\* a burst on its last active tick, almost faded out, next to a younger
\* one still at full opacity
C20_Witness ==
  /\ \E i \in 1..Len(fireworks) :
       /\ fireworks[i].active /\ fireworks[i].age = 2992
       /\ fireworks[i].opacity = 80
  /\ \E i \in 1..Len(fireworks) :
       /\ fireworks[i].age > 0 /\ fireworks[i].opacity = 9000

\* C21: each call of the tree generator and of the exploded generator
\* returns an array of exactly 3 * particleCount elements.
C21_ThreeNElements ==
  \A c \in 1..Len(genCalls) :
    Len(genCalls[c].positions) = 3 * genCalls[c].particleCount

\* both generators have returned for a positive particle count
C21_Witness ==
  /\ \E c \in 1..Len(genCalls) :
       genCalls[c].fn = "tree" /\ genCalls[c].particleCount = MaxCount
  /\ \E c \in 1..Len(genCalls) :
       genCalls[c].fn = "exploded" /\ genCalls[c].particleCount = MaxCount

\* C22: two calls of the exploded generator with the same particle count
\* return identical arrays, and each coordinate of particle i is the hash
\* at (i,0,0), (0,i,0), (0,0,i) mapped to (noise - 0.5) * 60.
C22_ExplodedDeterministic ==
  \A c, d \in 1..Len(genCalls) :
    (genCalls[c].fn = "exploded" /\ genCalls[d].fn = "exploded")
      => /\ genCalls[c].particleCount = genCalls[d].particleCount
              => genCalls[c].positions = genCalls[d].positions
         /\ \A i \in 0..(genCalls[c].particleCount - 1) :
              /\ genCalls[c].positions[3 * i + 1]
                   = (NoiseTable[1][i + 1] - 5000) * 60
              /\ genCalls[c].positions[3 * i + 2]
                   = (NoiseTable[2][i + 1] - 5000) * 60
              /\ genCalls[c].positions[3 * i + 3]
                   = (NoiseTable[3][i + 1] - 5000) * 60

\* the exploded generator has been called twice with the same positive
\* count
C22_Witness ==
  /\ Len(genCalls) >= 2
  /\ genCalls[1].fn = "exploded" /\ genCalls[2].fn = "exploded"
  /\ genCalls[1].particleCount = MaxCount
  /\ genCalls[2].particleCount = MaxCount
  /\ genCalls[1].positions # Float32Array(3 * MaxCount)

\* C23: the classifier returns null exactly when the landmark input is
\* absent or has fewer than 21 entries, and then it reads no landmark; for
\* an input of 21 entries or more it returns a descriptor, built from
\* entries inside the array.
C23_NullIffTooFew ==
  clsResult # Pending
    => LET short == clsInput = NULL \/ Len(clsInput.pts) < 21 IN
       /\ (clsResult = NULL) <=> short
       /\ short => landmarksRead(clsInput) = {}
       /\ ~short
            => /\ landmarksRead(clsInput) # {}
               /\ \A k \in landmarksRead(clsInput) : k < Len(clsInput.pts)
               /\ clsResult.palmBase = clsInput.pts[10]

\* an array of 20 landmarks was classified as null
C23_Witness ==
  /\ clsInput # NULL /\ Len(clsInput.pts) = 20
  /\ clsResult = NULL

\* The spawn timers of trigger t that have not run yet
PendingSpawns(t) ==
  {i \in 1..Len(timers) : timers[i].kind = "fw" /\ timers[i].trigger = t}

\* C24: for each trigger the layer bursts are created in the order 0, 1, 2,
\* one per spawn callback that has run: after k of its callbacks the
\* trigger has created the bursts of layers 0..k-1, each once.
C24_LayersInOrder ==
  \A t \in 1..nTriggers :
    /\ Len(fwArrays[t]) = 3 - Cardinality(PendingSpawns(t))
    /\ \A j \in 1..Len(fwArrays[t]) : fwArrays[t][j].layerIndex = j - 1

\* C25: in every tick and for every particle, on either target branch and
\* with or without an attraction, each velocity component becomes 0.90
\* times the sum of the old component, the attraction and the jitter, and
\* each position component advances by that new velocity component.
C25_DampThenIntegrate ==
  [][ time' # time
      => \A i \in DOMAIN pts : \A c \in 1..3 :
           /\ pts'[i].vel[c]
                = Quot((pts[i].vel[c] + pts'[i].imp[c] + pts'[i].jit[c])
                         * 90, 100)
           /\ pts'[i].pos[c] = pts[i].pos[c] + pts'[i].vel[c] ]_vars

\* a tick on the Exploded branch has added attraction and jitter to a
\* moving particle and moved it
C25_Witness ==
  /\ Len(pts) = 1 /\ time = 0 /\ pinchStrength = 0
  /\ pts[1].imp # Zero3 /\ pts[1].jit # Zero3
  /\ pts[1].vel # Zero3 /\ pts[1].dist > 100

\* C26: no step (tick, frame with any gesture, timer, unmount) changes a
\* particle's Tree or Exploded target, and the position and velocity
\* buffers keep three components for each of the N particles.
C26_TargetsReadOnly ==
  [][ /\ DOMAIN pts' = DOMAIN pts
      /\ Len(pts') = NParticles
      /\ \A i \in DOMAIN pts :
           /\ pts'[i].tree = pts[i].tree
           /\ pts'[i].exploded = pts[i].exploded
           /\ Len(pts'[i].pos) = 3 /\ Len(pts'[i].vel) = 3 ]_vars

\* a tick has moved the particles toward their Tree targets after a fist,
\* and a one-finger event has changed the theme since
C26_Witness ==
  /\ Len(pts) = NParticles /\ time = 0
  /\ \A i \in DOMAIN pts : pts[i].pos # pts[i].exploded /\ pts[i].imp # Zero3
  /\ colorTheme = 1 /\ isPinching

\* C27: a particle's speed never exceeds damping / (1 - damping) times the
\* largest attraction, 9 * 0.35 = 3.15 per tick: it holds at rest, and a
\* tick under any pinch state takes a velocity within the bound to one
\* within the bound.
C27_SpeedBounded ==
  \A i \in DOMAIN pts : Dot(pts[i].vel, pts[i].vel) <= 31500 * 31500

\* a tick at full pinch strength has pushed a particle already at the
\* bound, and it is still within it
C27_Witness ==
  /\ Len(pts) = 1 /\ time = 0 /\ pinchStrength = 100
  /\ pts[1].imp = <<2100, 2800, 0>>
  /\ Dot(pts[1].vel, pts[1].vel) >= 31400 * 31400

\* A step in which initCamera's catch runs while the component is mounted
CaughtMounted == initPc # "denied" /\ initPc' = "denied" /\ isMounted

\* C28: when creating the tracker or starting the camera throws while
\* mounted, status ERROR is reported with the camera-permission message,
\* which is not the load-failure message; ACTIVE and ERROR are never both
\* reported; ACTIVE is reported only once the camera start has completed.
C28_CameraFailureReported ==
  [][ /\ CaughtMounted
           => /\ cameraStatus' = "ERROR"
              /\ "ERROR" \in statusLog'
              /\ errorMessage' = CAMERA_MESSAGE
              /\ errorMessage' # LOAD_MESSAGE
              /\ errorReports' = errorReports + 1
      /\ ~({"ACTIVE", "ERROR"} \subseteq statusLog')
      /\ "ACTIVE" \in statusLog' => initPc' = "active"
      /\ initPc' = "failed" => errorMessage' = LOAD_MESSAGE ]_vars

\* the camera was created and its start was refused while mounted
C28_Witness ==
  /\ initPc = "denied" /\ isMounted /\ cameraInstance
  /\ cameraStatus = "ERROR" /\ errorMessage = CAMERA_MESSAGE
  /\ statusLog = {"ERROR"}

\* A frame step whose frame shows one, two or three fingers and no fist
FingerCountStep ==
  /\ FrameStep /\ IsHand(lastFrame') /\ ~lastFrame'.isFist
  /\ (lastFrame'.isOneFinger \/ lastFrame'.isTwoFingers
      \/ lastFrame'.isThreeFingers)

\* C29: a frame classified as one, two or three fingers with isFist false
\* invokes neither the fist nor the no-gesture callback and leaves the
\* scene's isPinching, pinchStrength and rotation target unchanged.
C29_FingerCountKeepsPinch ==
  [][ FingerCountStep
      => /\ ~Called(calls', "fist") /\ ~Called(calls', "none")
         /\ isPinching' = isPinching
         /\ pinchStrength' = pinchStrength
         /\ rotationTarget' = rotationTarget
         /\ isPinchingRef' = isPinchingRef ]_vars

\* a one-finger frame has changed the theme of a scene that a full fist
\* had assembled, and the scene is still pinched
C29_Witness ==
  /\ IsHand(lastFrame) /\ ~lastFrame.isFist /\ lastFrame.isOneFinger
  /\ Called(calls, "one")
  /\ isPinching /\ pinchStrength = 100
  /\ rotationTarget # [x |-> 0, y |-> 0]

\* C30: in every state of the scene isPinching is true exactly when
\* pinchStrength > 0.01, and the target a tick selected agrees with
\* isPinching: Tree when it is true, Exploded when it is false.
C30_PinchFlagMatchesStrength ==
  /\ isPinching <=> pinchStrength > 1
  /\ lastTick # NoTick
       => \A i \in Particles :
            lastTick.target[i] = IF isPinching THEN "Tree" ELSE "Exploded"

\* a tick has selected the Tree target under a three-finger fist
C30_Witness ==
  /\ isPinching /\ pinchStrength = 75
  /\ lastTick # NoTick /\ lastTick.target[1] = "Tree"

\* What the hook's callbacks leave behind: the gesture callbacks' calls and
\* their effects in the component and the scene, the status and the error
\* reports.
CallbackTrace ==
  <<compVars, pinchVars, colorTheme, isSnowing, timerVars, lastPinchCall,
    cameraStatus, errorReports, errorMessage, statusLog>>

\* C31: once the hook's cleanup has run, no step invokes a gesture
\* callback, a status callback or an error callback: a result that arrives
\* later calls nothing, and initCamera finishing later (scripts found or
\* not, camera started or refused) reports nothing.
C31_SilentAfterCleanup ==
  [][~isMounted => (calls' = << >> /\ UNCHANGED CallbackTrace)]_vars

\* a result has arrived after the cleanup of a hook whose camera had
\* started
C31_Witness ==
  /\ ~isMounted
  /\ initPc = "active"
  /\ lastFrame.kind = "unmounted"

SnowPending == {i \in 1..Len(timers) : timers[i].kind = "snow"}

SnowDelays == {timers[i].rem : i \in SnowPending}

\* A step in which the hook calls onTwoFingersGesture
TwoFingersStep == FrameStep /\ Called(calls', "two")

\* What a step may do to the snow: a two-finger event during snow changes
\* neither the flags nor the pending timer; one outside snow sets the flags
\* and a 10 s timer; only that timer, when due, clears them; only a
\* two-finger event sets them.
SnowRule ==
  /\ (TwoFingersStep /\ isSnowingRef) =>
        /\ UNCHANGED <<isSnowingRef, isSnowing>>
        /\ SnowDelays' = SnowDelays
  /\ (TwoFingersStep /\ ~isSnowingRef) =>
        /\ isSnowingRef'
        /\ threeSceneRef => isSnowing'
        /\ SnowDelays' = {10000}
  /\ (isSnowingRef /\ ~isSnowingRef') =>
        /\ SnowDelays = {0}
        /\ SnowPending' = {}
        /\ threeSceneRef => ~isSnowing'
  /\ (~isSnowingRef /\ isSnowingRef') => TwoFingersStep

\* C33: a two-finger event during snow starts no second stop timer and
\* leaves the running one as it is, so that one stop timer is pending
\* exactly while the component's snow flag is set; a two-finger event
\* outside snow starts snow with a 10 s timer, whose firing, and nothing
\* else, stops it, and every snowfall is stopped in the end; while the
\* scene exists its snow visibility equals the component's flag.
C33_SnowOncePerTenSeconds ==
  /\ [](Cardinality(SnowPending) = IF isSnowingRef THEN 1 ELSE 0)
  /\ [](threeSceneRef => isSnowing = isSnowingRef)
  /\ [][SnowRule]_vars
  /\ (isSnowingRef ~> ~isSnowingRef)

\* a two-finger event has just been received during a snowfall that has
\* part of its 10 s left
C33_Witness ==
  /\ isMounted /\ isSnowingRef
  /\ Called(calls, "two")
  /\ \E d \in SnowDelays : d > 0 /\ d < 10000

=============================================================================
